---------------------------- MODULE Spec2Model ----------------------------
(***************************************************************************)
(* Model of atoml: the model-selection pipeline of ModelBuilder            *)
(* (src/atoml/model_build.py) and the graph fingerprint helpers            *)
(* (src/atoml/graph.py).                                                   *)
(*                                                                         *)
(* A feature matrix is abstracted to the sequence of the identities of its *)
(* columns (cols), together with two flags telling whether it went through *)
(* clean_zero and standardize.  A feature name is abstracted to the        *)
(* identity of the feature it labels, so names and matrix are aligned      *)
(* exactly when the two sequences are equal.  Python's 0-based positions   *)
(* are 1-based here: mo[s:] is SubSeq(mo, s + 1, Len(mo)).                 *)
(***************************************************************************)
EXTENDS Integers, Sequences, FiniteSets, TLC

\* ---- bounds of the model ----
MaxN == 2
MaxD == 3
MaxExtra == 1
MaxSize == 2
MaxAtoms == 3

\* ---- encodings ----
\* Python None for an integer-valued name (size, best_size).
None == -1
\* float('inf'), the starting value of best_p1.
Inf == 1000000

VARIABLES
    cfg,            \* the ModelBuilder attributes set by __init__
    call,           \* the arguments of the from_atoms / from_matrix call
    zero_var,       \* identities of the columns with zero variance in train
    pc,             \* position inside the call
    build_no,       \* 0: outside build_model, 1: first call, 2: call on the expanded matrix
    fm_train,       \* from_matrix: train_matrix
    fm_test,        \* from_matrix: test_matrix
    fm_names,       \* from_matrix: feature_names
    train_matrix,   \* build_model / reduce_matrix: train_matrix
    test_matrix,    \* build_model / reduce_matrix: test_matrix
    feature_names,  \* build_model / reduce_matrix: feature_names
    limit,          \* limit handed to build_model and reduce_matrix
    d,              \* reduce_matrix: d (feature count on entry)
    mo,             \* reduce_matrix: the lasso ordering
    best_size,      \* reduce_matrix: best_size
    best_p1,        \* reduce_matrix: best_p1
    s,              \* reduce_matrix: loop variable of the size search
    rmse_min,       \* history: the least validation RMSE the predictor returned in this search
    rmse_best,      \* history: the validation RMSE the predictor returned at size best_size
    im,             \* from_matrix: value of the first build_model call
    result,         \* value returned by the call
    err,            \* the exception that ended the call, "none" otherwise
    trace,          \* the stages and primitives invoked so far, in order
    atoms,          \* graph: the structure, a sequence of atoms
    info,           \* graph: atoms.info['key_value_pairs'], the neighborlist entry
    gpc,            \* graph: position inside base_f
    cm_store,       \* base_f: the connections matrix
    gen_cm,         \* base_f: the generalized coordination, in twelfths
    fp,             \* base_f: the feature vector
    builder,        \* the width and regularization given to __init__
    pcall,          \* the method called on the builder and its arguments
    ppc,            \* position inside make_prediction / hyp_opt
    width,          \* self.width
    regularization, \* self.regularization
    predict,        \* make_prediction: the arguments FitnessPrediction was built with
    presult,        \* value returned by the call
    perr            \* the exception that ended the call, "none" otherwise

pipe_vars == <<cfg, call, zero_var, pc, build_no, fm_train, fm_test, fm_names,
               train_matrix, test_matrix, feature_names, limit, d, mo,
               best_size, best_p1, s, rmse_min, rmse_best, im, result, err, trace>>

graph_vars == <<atoms, info, gpc, cm_store, gen_cm, fp>>

predict_vars == <<builder, pcall, ppc, width, regularization, predict, presult, perr>>

vars == <<pipe_vars, graph_vars, predict_vars>>

\* ---- helpers ----
Range(f) == {f[i] : i \in DOMAIN f}

Iota(k) == [i \in 1..k |-> i]

\* all orderings of the positions 1..k
Perms(k) == {p \in [1..k -> 1..k] : \A i, j \in 1..k : i # j => p[i] # p[j]}

\* np.delete(seq, positions): the entries whose position is not listed, in order
RECURSIVE NpDelete(_, _)
NpDelete(q, idx) ==
    IF q = <<>> THEN <<>>
    ELSE LET n == Len(q)
             front == NpDelete(SubSeq(q, 1, n - 1), idx)
         IN IF n \in idx THEN front ELSE Append(front, q[n])

\* seq[k:] with k None or k >= 0
SliceFrom(q, k) ==
    IF k = None THEN q
    ELSE IF k >= Len(q) THEN <<>>
    ELSE SubSeq(q, k + 1, Len(q))

\* ---- matrices ----
\* kind: "array" a 2-d array, "None" Python's None, "array(None)" the 0-d
\* array np.asarray(None)
Matrix(c, cl, st) == [cols |-> c, clean |-> cl, std |-> st, kind |-> "array"]
NoMatrix == [cols |-> <<>>, clean |-> FALSE, std |-> FALSE, kind |-> "None"]
ArrayOfNone == [cols |-> <<>>, clean |-> FALSE, std |-> FALSE, kind |-> "array(None)"]
IsNone(m) == m.kind = "None"

\* np.delete(matrix, positions, axis=1)
DeleteColumns(m, idx) == [m EXCEPT !.cols = NpDelete(m.cols, idx)]

NoResult == [kind |-> "pending", names |-> <<>>, train |-> NoMatrix, test |-> NoMatrix]
ReturnNone == [kind |-> "None", names |-> <<>>, train |-> NoMatrix, test |-> NoMatrix]
Triple(nm, tr, te) == [kind |-> "triple", names |-> nm, train |-> tr, test |-> te]

\* ---- ModelBuilder.__init__ ----
\* A screening_method argument: its value, and whether it is the very object of
\* the literal that screening compares it to with `is` (an equal string built
\* at run time is another object).
MethodObjects ==
    {[value |-> "rrcs", literal |-> TRUE], [value |-> "sis", literal |-> TRUE],
     [value |-> "rrcs", literal |-> FALSE]}

Configs ==
    [update_test_db : BOOLEAN,
     screening_method : MethodObjects,
     initial_prediction : BOOLEAN, expand : BOOLEAN, optimize : BOOLEAN,
     size : {None} \cup 0..MaxSize]

Calls ==
    [build : BOOLEAN, has_test : BOOLEAN, n : 1..MaxN, d : 1..MaxD]

\* The two public entry points of ModelBuilder.
EntryPoints == {"from_atoms", "from_matrix"}

\* The columns of the ingested train matrix that have zero variance over
\* its rows: any of them, and all of them when there is one row only.
ZeroVariance(rows, columns) ==
    IF rows = 1 THEN {1..columns} ELSE SUBSET (1..columns)

PipeInit ==
    /\ cfg \in Configs
    /\ call \in Calls
    /\ zero_var \in ZeroVariance(call.n, call.d)
    /\ pc \in EntryPoints
    /\ build_no = 0
    /\ fm_train = IF pc = "from_atoms" THEN NoMatrix
                  ELSE Matrix(Iota(call.d), FALSE, FALSE)
    /\ fm_test = IF pc = "from_atoms" \/ ~call.has_test THEN NoMatrix
                 ELSE Matrix(Iota(call.d), FALSE, FALSE)
    /\ fm_names = <<>>
    /\ train_matrix = NoMatrix
    /\ test_matrix = NoMatrix
    /\ feature_names = <<>>
    /\ limit = 0
    /\ d = 0
    /\ mo = <<>>
    /\ best_size = None
    /\ best_p1 = Inf
    /\ s = 0
    /\ rmse_min = Inf
    /\ rmse_best = Inf
    /\ im = "unbound"
    /\ result = NoResult
    /\ err = "none"
    /\ trace = <<>>

Abort(e) ==
    /\ pc' = "aborted"
    /\ err' = e

\* from_atoms: fingerprint the structures, then call from_matrix.
FromAtoms ==
    /\ pc = "from_atoms"
    /\ UNCHANGED <<graph_vars, predict_vars>>
    /\ fm_train' = Matrix(Iota(call.d), FALSE, FALSE)
    /\ fm_test' = IF call.has_test THEN Matrix(Iota(call.d), FALSE, FALSE) ELSE NoMatrix
    /\ pc' = "from_matrix"
    /\ UNCHANGED <<cfg, call, zero_var, build_no, fm_names, train_matrix, test_matrix,
                   feature_names, limit, d, mo, best_size, best_p1, s, rmse_min, rmse_best, im,
                   result, err, trace>>

\* from_matrix up to the build gate: the default names and the db_store calls.
\* db_store iterates atoms_id, and test_id is None without test data.  The store
\* of the train matrix (update_train_db) changes nothing the pipeline reads and
\* is left out.
FromMatrix ==
    /\ pc = "from_matrix"
    /\ UNCHANGED <<graph_vars, predict_vars>>
    /\ fm_names' = Iota(Len(fm_train.cols))
    /\ IF cfg.update_test_db /\ IsNone(fm_test)
       THEN /\ Abort("TypeError")
            /\ trace' = trace \o <<"ingest">>
       ELSE /\ pc' = "build_gate"
            /\ err' = err
            /\ trace' = trace \o <<"ingest">>
                          \o (IF cfg.update_test_db THEN <<"db_store">> ELSE <<>>)
    /\ UNCHANGED <<cfg, call, zero_var, build_no, fm_train, fm_test, train_matrix,
                   test_matrix, feature_names, limit, d, mo, best_size, best_p1, s,
                   rmse_min, rmse_best, im, result>>

\* from_matrix, `if build:`: the limit of the first build_model call.
FirstLimit(rows, columns) == IF columns < rows THEN columns ELSE rows

EnterBuildModel(no, lim) ==
    /\ build_no' = no
    /\ limit' = lim
    /\ train_matrix' = fm_train
    /\ test_matrix' = fm_test
    /\ feature_names' = fm_names
    /\ pc' = "clean"

\* a gate that goes on to the expansion without the first build_model call
BuildGateSkipsBuild ==
    /\ pc = "build_gate"
    /\ UNCHANGED <<graph_vars, predict_vars>>
    /\ pc' = "expand_gate"
    /\ UNCHANGED <<cfg, call, zero_var, build_no, fm_train, fm_test, fm_names,
                   train_matrix, test_matrix, feature_names, limit, d, mo, best_size,
                   best_p1, s, rmse_min, rmse_best, im, result, err, trace>>

BuildGate ==
    /\ pc = "build_gate"
    /\ UNCHANGED <<graph_vars, predict_vars>>
    /\ IF call.build
       THEN EnterBuildModel(1, FirstLimit(call.n, Len(fm_train.cols)))
       ELSE /\ pc' = "expand_gate"
            /\ UNCHANGED <<build_no, limit, train_matrix, test_matrix, feature_names>>
    /\ UNCHANGED <<cfg, call, zero_var, fm_train, fm_test, fm_names, d, mo, best_size,
                   best_p1, s, rmse_min, rmse_best, im, result, err, trace>>

\* clean_zero: the positions of the zero-variance columns of train.
ZeroVarianceIndex(m) == {i \in 1..Len(m.cols) : m.cols[i] \in zero_var}

CleanMatrix(m, idx) ==
    IF IsNone(m) THEN m ELSE [DeleteColumns(m, idx) EXCEPT !.clean = TRUE]

\* build_model: clean_zero on train and test, the same deletion on the names.
Clean ==
    /\ pc = "clean"
    /\ UNCHANGED <<graph_vars, predict_vars>>
    /\ LET idx == ZeroVarianceIndex(train_matrix)
       IN /\ train_matrix' = CleanMatrix(train_matrix, idx)
          /\ test_matrix' = CleanMatrix(test_matrix, idx)
          /\ feature_names' = NpDelete(feature_names, idx)
    /\ trace' = Append(trace, "clean")
    /\ pc' = "standardize"
    /\ UNCHANGED <<cfg, call, zero_var, build_no, fm_train, fm_test, fm_names, limit,
                   d, mo, best_size, best_p1, s, rmse_min, rmse_best, im, result, err>>

\* standardize: zero mean and unit scale, the columns stay as they are.
Standardized(m) == IF IsNone(m) THEN m ELSE [m EXCEPT !.std = TRUE]

Standardize ==
    /\ pc = "standardize"
    /\ UNCHANGED <<graph_vars, predict_vars>>
    /\ train_matrix' = Standardized(train_matrix)
    /\ test_matrix' = Standardized(test_matrix)
    /\ trace' = Append(trace, "standardize")
    /\ pc' = "size_check"
    /\ UNCHANGED <<cfg, call, zero_var, build_no, fm_train, fm_test, fm_names,
                   feature_names, limit, d, mo, best_size, best_p1, s, rmse_min, rmse_best, im,
                   result, err>>

\* an off-by-one size check: >= where the code has >
SizeOkOrEqual(count, size) == count >= size

\* build_model: assert len(train_matrix[0]) > self.size
SizeOk(count, size) == count > size

SizeCheck ==
    /\ pc = "size_check"
    /\ UNCHANGED <<graph_vars, predict_vars>>
    /\ IF cfg.size # None /\ ~SizeOk(Len(train_matrix.cols), cfg.size)
       THEN Abort("AssertionError:size")
       ELSE pc' = "baseline" /\ err' = err
    /\ UNCHANGED <<cfg, call, zero_var, build_no, fm_train, fm_test, fm_names,
                   train_matrix, test_matrix, feature_names, limit, d, mo, best_size,
                   best_p1, s, rmse_min, rmse_best, im, result, trace>>

\* build_model: the optional prediction on all features (opt_h False, so the
\* stored width and regularization stay as they are).
Baseline ==
    /\ pc = "baseline"
    /\ UNCHANGED <<graph_vars, predict_vars>>
    /\ trace' = IF cfg.initial_prediction THEN Append(trace, "baseline") ELSE trace
    /\ pc' = "reduce_matrix"
    /\ UNCHANGED <<cfg, call, zero_var, build_no, fm_train, fm_test, fm_names,
                   train_matrix, test_matrix, feature_names, limit, d, mo, best_size,
                   best_p1, s, rmse_min, rmse_best, im, result, err>>

\* reduce_matrix: n, d, assert limit <= d, and the test d > n.
ReduceEntry ==
    /\ pc = "reduce_matrix"
    /\ UNCHANGED <<graph_vars, predict_vars>>
    /\ d' = Len(train_matrix.cols)
    /\ trace' = Append(trace, "reduce_matrix")
    /\ IF limit <= d'
       THEN pc' = (IF d' > call.n THEN "screening" ELSE "ridge_regression") /\ err' = err
       ELSE Abort("AssertionError:limit")
    /\ UNCHANGED <<cfg, call, zero_var, build_no, fm_train, fm_test, fm_names,
                   train_matrix, test_matrix, feature_names, limit, mo, best_size,
                   best_p1, s, rmse_min, rmse_best, im, result>>

\* `self.screening_method is 'rrcs'`: identity of string objects, true only
\* when the configured string is the object of the literal.
IsLiteral(lit) == cfg.screening_method.value = lit /\ cfg.screening_method.literal

\* screening: which primitive runs; "unbound" when neither `is` test holds.
ScreeningVariant(columns, rows) ==
    IF columns > 2 * rows THEN "iterative_screening"
    ELSE IF IsLiteral("rrcs") THEN "rr_screen"
    ELSE IF IsLiteral("sis") THEN "sure_screen"
    ELSE "unbound"

\* The rejected positions a screening primitive asked for `size` features may
\* return: everything but at most `size` accepted positions.
ScreenRejected(columns, size) ==
    {(1..columns) \ acc : acc \in {a \in SUBSET (1..columns) : Cardinality(a) <= size}}

Screening ==
    /\ pc = "screening"
    /\ UNCHANGED <<graph_vars, predict_vars>>
    /\ LET n == call.n
           dd == Len(train_matrix.cols)
           variant == ScreeningVariant(dd, n)
       IN IF variant = "unbound"
          THEN /\ Abort("UnboundLocalError:screen")
               /\ UNCHANGED <<train_matrix, test_matrix, feature_names, trace>>
          ELSE \E rejected \in ScreenRejected(dd, n) :
                 /\ train_matrix' = DeleteColumns(train_matrix, rejected)
                 /\ test_matrix' = IF IsNone(test_matrix) THEN ArrayOfNone
                                   ELSE DeleteColumns(test_matrix, rejected)
                 /\ feature_names' = NpDelete(feature_names, rejected)
                 /\ trace' = Append(trace, variant)
                 /\ pc' = "ridge_regression"
                 /\ err' = err
    /\ UNCHANGED <<cfg, call, zero_var, build_no, fm_train, fm_test, fm_names, limit,
                   d, mo, best_size, best_p1, s, rmse_min, rmse_best, im, result>>

\* sorted(zip(abs(coef), order, feature_names), key=lambda x: x[0], reverse=True):
\* positions by descending |coef|; the sort is stable, equal keys keep their order.
SortOrder(coef) ==
    CHOOSE p \in Perms(Len(coef)) :
        \A i, j \in 1..Len(coef) :
            i < j => \/ coef[p[i]] > coef[p[j]]
                     \/ (coef[p[i]] = coef[p[j]] /\ p[i] < p[j])

\* abs(coef) of RR: the sort reads only how the entries compare, and the ranks
\* 1..k give every way k numbers can compare.
AbsCoefs(k) == [1..k -> 1..k]

Reorder(q, p) == [i \in 1..Len(p) |-> q[p[i]]]

\* ridge_regression and the unpacking of its value in reduce_matrix.
RidgeRegression ==
    /\ pc = "ridge_regression"
    /\ UNCHANGED <<graph_vars, predict_vars>>
    /\ trace' = Append(trace, "ridge_regression")
    /\ IF IsNone(test_matrix)
       THEN Abort("UnboundLocalError:error") /\ UNCHANGED feature_names
       ELSE IF test_matrix.kind = "array(None)"
       THEN Abort("TypeError") /\ UNCHANGED feature_names
       ELSE IF Len(train_matrix.cols) = 0
       THEN Abort("IndexError") /\ UNCHANGED feature_names
       ELSE \E coef \in AbsCoefs(Len(train_matrix.cols)) :
               /\ feature_names' = Reorder(feature_names, SortOrder(coef))
               /\ pc' = "lasso_opt"
               /\ err' = err
    /\ UNCHANGED <<cfg, call, zero_var, build_no, fm_train, fm_test, fm_names,
                   train_matrix, test_matrix, limit, d, mo, best_size, best_p1, s,
                   rmse_min, rmse_best, im, result>>

\* lasso: las['order'], an ordering of all the columns of the matrix it is given.
LassoOrders(m) == Perms(Len(m.cols))

\* lasso_opt, then best_size = self.size and the start of the size search.
LassoOpt ==
    /\ pc = "lasso_opt"
    /\ UNCHANGED <<graph_vars, predict_vars>>
    /\ mo' \in LassoOrders(train_matrix)
    /\ trace' = Append(trace, "lasso")
    /\ best_size' = cfg.size
    /\ best_p1' = Inf
    /\ s' = 1
    /\ rmse_min' = Inf
    /\ rmse_best' = Inf
    /\ pc' = IF cfg.optimize THEN "size_search" ELSE "truncate"
    /\ UNCHANGED <<cfg, call, zero_var, build_no, fm_train, fm_test, fm_names,
                   train_matrix, test_matrix, feature_names, limit, d, im, result, err>>

\* p['validation_rmse']['average'] of get_predictions, a finite number: the
\* search reads only how the values compare, and the ranks 1..k give every way
\* k numbers can compare.
ValidationRmse(k) == 1..k

\* a comparison against the starting value instead of the running best
ImprovesOnStart(rmse, best) == rmse < Inf

\* p['validation_rmse']['average'] < best_p1
Improves(rmse, best) == rmse < best

\* One pass of `for s in range(1, limit + 1)`: predict on the top-s columns,
\* keep the best, and from s = 2 on run pca_opt.
SizeSearchStep ==
    /\ pc = "size_search"
    /\ UNCHANGED <<graph_vars, predict_vars>>
    /\ s <= limit
    /\ \E rmse \in ValidationRmse(limit) :
         /\ IF Improves(rmse, best_p1)
            THEN best_p1' = rmse /\ best_size' = s
            ELSE UNCHANGED <<best_p1, best_size>>
         /\ rmse_min' = IF rmse < rmse_min THEN rmse ELSE rmse_min
         /\ rmse_best' = IF best_size' = s THEN rmse ELSE rmse_best
    /\ trace' = trace \o <<"fit">> \o (IF s > 1 THEN <<"pca_opt">> ELSE <<>>)
    /\ s' = s + 1
    /\ UNCHANGED <<cfg, call, zero_var, pc, build_no, fm_train, fm_test, fm_names,
                   train_matrix, test_matrix, feature_names, limit, d, mo, im, result,
                   err>>

\* reduce_matrix: the value returned; the names are returned as they are.
ReducedTriple(names, train, test, order, size) ==
    LET remove_features == Range(SliceFrom(order, size))
    IN Triple(names,
              DeleteColumns(train, remove_features),
              IF IsNone(test) THEN test ELSE DeleteColumns(test, remove_features))

\* reduce_matrix: the final truncation, and the return through build_model to
\* from_matrix (`im = ...` for the first call, `return ...` for the second).
\* The locals of build_model and reduce_matrix end with the call.  im is never
\* read again: only that it is bound is kept.
ReturnReduced ==
    /\ LET r == ReducedTriple(feature_names, train_matrix, test_matrix, mo, best_size)
       IN IF build_no = 1
          THEN im' = "bound" /\ pc' = "expand_gate" /\ UNCHANGED result
          ELSE result' = r /\ pc' = "returned" /\ UNCHANGED im
    /\ trace' = Append(trace, "truncate")
    /\ build_no' = 0
    /\ train_matrix' = NoMatrix
    /\ test_matrix' = NoMatrix
    /\ feature_names' = <<>>
    /\ limit' = 0
    /\ d' = 0
    /\ mo' = <<>>
    /\ best_size' = None
    /\ best_p1' = Inf
    /\ s' = 0
    /\ rmse_min' = Inf
    /\ rmse_best' = Inf
    /\ err' = err

\* After the loop: the report reads best_pca, cc, cs, bound only by pca_opt;
\* then the truncation and the return.
SizeSearchEnd ==
    /\ pc = "size_search"
    /\ UNCHANGED <<graph_vars, predict_vars>>
    /\ s > limit
    /\ IF limit < 2
       THEN /\ Abort("UnboundLocalError:best_pca")
            /\ UNCHANGED <<build_no, train_matrix, test_matrix, feature_names, limit, d, mo,
                           best_size, best_p1, s, rmse_min, rmse_best, im, result, trace>>
       ELSE ReturnReduced
    /\ UNCHANGED <<cfg, call, zero_var, fm_train, fm_test, fm_names>>

\* Without optimize: the truncation to the configured size and the return.
Truncate ==
    /\ pc = "truncate"
    /\ UNCHANGED <<graph_vars, predict_vars>>
    /\ ReturnReduced
    /\ UNCHANGED <<cfg, call, zero_var, fm_train, fm_test, fm_names>>

\* expand_matrix: the composite columns follow the originals; the labels made
\* by get_labels_* follow the names in the same order.
ExpandedCols(q, extra) == q \o [i \in 1..extra |-> Len(q) + i]

ExpandMatrix(m, extra) == [m EXCEPT !.cols = ExpandedCols(m.cols, extra)]

\* from_matrix, `if self.expand:`: expand train and names, store, expand test,
\* store, and with test data and build call build_model on the expanded matrix.
\* The composite columns of the model vary over the training set: zero_var
\* holds original columns only.
Expand ==
    /\ pc = "expand_gate"
    /\ UNCHANGED <<graph_vars, predict_vars>>
    /\ cfg.expand
    /\ \E extra \in 1..MaxExtra :
            /\ fm_train' = ExpandMatrix(fm_train, extra)
            /\ fm_names' = ExpandedCols(fm_names, extra)
            /\ fm_test' = IF IsNone(fm_test) THEN fm_test ELSE ExpandMatrix(fm_test, extra)
    /\ trace' = trace \o <<"expand">>
                  \o (IF ~IsNone(fm_test) /\ cfg.update_test_db THEN <<"db_store">> ELSE <<>>)
    /\ IF ~IsNone(fm_test) /\ call.build
       THEN /\ build_no' = 2
            /\ limit' = call.n
            /\ train_matrix' = fm_train'
            /\ test_matrix' = fm_test'
            /\ feature_names' = fm_names'
            /\ pc' = "clean"
            /\ UNCHANGED result
       ELSE /\ result' = ReturnNone
            /\ pc' = "returned"
            /\ UNCHANGED <<build_no, limit, train_matrix, test_matrix, feature_names>>
    /\ UNCHANGED <<cfg, call, zero_var, d, mo, best_size, best_p1, s, rmse_min, rmse_best,
                   im, err>>

\* from_matrix without expand: the function ends without a return statement.
NoExpand ==
    /\ pc = "expand_gate"
    /\ UNCHANGED <<graph_vars, predict_vars>>
    /\ ~cfg.expand
    /\ result' = ReturnNone
    /\ pc' = "returned"
    /\ UNCHANGED <<cfg, call, zero_var, build_no, fm_train, fm_test, fm_names,
                   train_matrix, test_matrix, feature_names, limit, d, mo, best_size,
                   best_p1, s, rmse_min, rmse_best, im, err, trace>>

Next ==
    \/ FromAtoms
    \/ FromMatrix
    \/ BuildGate
    \/ Clean
    \/ Standardize
    \/ SizeCheck
    \/ Baseline
    \/ ReduceEntry
    \/ Screening
    \/ RidgeRegression
    \/ LassoOpt
    \/ SizeSearchStep
    \/ SizeSearchEnd
    \/ Truncate
    \/ Expand
    \/ NoExpand

\* ======================= graph.py =======================
\* Lengths are in 1/100 of the length unit: dx = 0.2 is 20.
Dx == 20

\* ase.data.covalent_radii for the atom types of the model, H, C and O.
CovalentRadius(number) == IF number = 1 THEN 31 ELSE IF number = 6 THEN 76 ELSE 66

\* the 12. that generalized_matrix divides by
ReferenceCoordination == 12

\* An atom: its position on a line and its atomic number.
AtomSet == [x : {0, 100}, number : {1, 6, 8}]

Structures == UNION {[1..k -> AtomSet] : k \in 1..MaxAtoms}

\* ReferenceCoordination + 1 atoms of one type, each within reach of all others.
ReferenceCluster == [i \in 1..(ReferenceCoordination + 1) |-> [x |-> i, number |-> 6]]

Abs(v) == IF v < 0 THEN -v ELSE v

\* np.linalg.norm(pi - pj)
Distance(atomi, atomj) == Abs(atomi.x - atomj.x)

\* a reach computed from the radius of atomi alone
IsNeighborOwnRadius(i, j, as, dx, neighbor_number) ==
    /\ i # j
    /\ LET dist == Distance(as[i], as[j])
           cri == CovalentRadius(as[i].number)
       IN dist > 0 /\ dist < (neighbor_number * (cri + cri)) + dx

\* get_neighborlist: whether atomj is appended to the list of atomi.
IsNeighbor(i, j, as, dx, neighbor_number) ==
    /\ i # j
    /\ LET dist == Distance(as[i], as[j])
           cri == CovalentRadius(as[i].number)
           crj == CovalentRadius(as[j].number)
           d_max1 == IF neighbor_number = 1 THEN 0
                     ELSE ((neighbor_number - 1) * (crj + cri)) + dx
           d_max2 == (neighbor_number * (crj + cri)) + dx
       IN dist > d_max1 /\ dist < d_max2

GetNeighborlist(as, dx, neighbor_number) ==
    [i \in 1..Len(as) |-> {j \in 1..Len(as) : IsNeighbor(i, j, as, dx, neighbor_number)}]

\* connection_matrix: 1 where j is in nl[i], 0 elsewhere.
BinaryMatrix(nl, k) == [i \in 1..k |-> [j \in 1..k |-> IF j \in nl[i] THEN 1 ELSE 0]]

\* connection_matrix: the list attached to the structure is used when there is one.
ConnectionMatrixOf(as, kvp, dx) ==
    LET nl == IF kvp.has_neighborlist THEN kvp.neighborlist
              ELSE GetNeighborlist(as, dx, 1)
    IN BinaryMatrix(nl, Len(as))

RECURSIVE SumSeq(_)
SumSeq(q) == IF q = <<>> THEN 0 ELSE q[Len(q)] + SumSeq(SubSeq(q, 1, Len(q) - 1))

\* a total that counts the connected atoms: tot += 1
RowCount(row) == SumSeq([j \in 1..Len(row) |-> IF row[j] # 0 THEN 1 ELSE 0])

\* generalized_matrix, one row: tot += sum(i) for every j with i[j] != 0.
RowTotal(row) == SumSeq([j \in 1..Len(row) |-> IF row[j] # 0 THEN SumSeq(row) ELSE 0])

\* generalized_matrix: tot / 12. for every row, kept as the numerator tot.
GeneralizedMatrix(cm) == [i \in 1..Len(cm) |-> RowTotal(cm[i])]

\* atoms.get_atomic_numbers()
AtomicNumbers(as) == [i \in 1..Len(as) |-> as[i].number]

\* element_list: 1 for the atoms of type no, 0 for the others.
ElementList(an, no) == [i \in 1..Len(an) |-> IF an[i] = no THEN 1 ELSE 0]

\* a matrix with 1 where the row atom is el[1] and the column atom is el[2]
HeteroatomicMatrixOfPair(an, el) ==
    [i \in 1..Len(an) |->
        [j \in 1..Len(an) |-> IF an[i] = el[1] /\ an[j] = el[2] THEN 1 ELSE 0]]

\* heteroatomic_matrix: in the rows of the atoms of type el[0], 1 at the atoms
\* that are not of type el[0]; the other rows are 0.  el[1] is not read.
HeteroatomicMatrix(an, el) ==
    [i \in 1..Len(an) |->
        [j \in 1..Len(an) |->
            IF an[i] = el[1] THEN (IF an[j] # el[1] THEN 1 ELSE 0) ELSE 0]]

\* the product of two arrays of one shape, entry by entry
VectorProduct(u, v) == [i \in 1..Len(u) |-> u[i] * v[i]]

MatrixProduct(a, b) == [i \in 1..Len(a) |-> VectorProduct(a[i], b[i])]

\* np.sum(matrix, axis=1)
RowSums(m) == [i \in 1..Len(m) |-> SumSeq(m[i])]

\* the orders in which `for e in set(an)` can enumerate the atom types
TypeOrders(an) ==
    LET types == Range(an)
    IN {p \in [1..Cardinality(types) -> types] :
            \A i, j \in 1..Cardinality(types) : i # j => p[i] # p[j]}

\* One scalar of the feature vector, kept as the array that np.sum reduces:
\* the scalar is the sum of the terms ("sum", "homoatomic", "heteroatomic"),
\* of their squares ("sum_squares") or of their square roots ("sum_roots").
Feature(lv, kd, e, eo, x) == [level |-> lv, kind |-> kd, e |-> e, eo |-> eo, terms |-> x]

\* get_features, the scalars of one level built from x: x, x ** 2, x ** 0.5
LevelSums(lv, e, x) ==
    <<Feature(lv, "sum", e, e, x), Feature(lv, "sum_squares", e, e, x),
      Feature(lv, "sum_roots", e, e, x)>>

\* get_features, the inner loop: one scalar for every eo not in done, in the
\* order of the enumeration.
RECURSIVE HeteroFeatures(_, _, _, _, _, _)
HeteroFeatures(an, cm, e, done, order, k) ==
    IF k > Len(order) THEN <<>>
    ELSE (IF order[k] \in done THEN <<>>
          ELSE <<Feature(2, "heteroatomic", e, order[k],
                         RowSums(MatrixProduct(HeteroatomicMatrix(an, <<e, order[k]>>), cm)))>>)
         \o HeteroFeatures(an, cm, e, done, order, k + 1)

\* get_features, one pass of `for e in set(an)` for the k-th type enumerated.
TypeFeatures(an, cm, sum_cm, gen, order, k) ==
    LET e == order[k]
        el == ElementList(an, e)
        pt == [i \in 1..Len(an) |-> el]
        done == {order[i] : i \in 1..k}
    IN LevelSums(1, e, VectorProduct(sum_cm, el))
           \o <<Feature(2, "homoatomic", e, e, RowSums(MatrixProduct(pt, cm)))>>
           \o HeteroFeatures(an, cm, e, done, order, 1)
           \o LevelSums(3, e, VectorProduct(gen, el))

\* get_features: the scalars of all the types, in the order of the enumeration.
RECURSIVE GetFeaturesFrom(_, _, _, _, _, _)
GetFeaturesFrom(an, cm, sum_cm, gen, order, k) ==
    IF k > Len(order) THEN <<>>
    ELSE TypeFeatures(an, cm, sum_cm, gen, order, k)
             \o GetFeaturesFrom(an, cm, sum_cm, gen, order, k + 1)

GetFeaturesOf(an, cm, sum_cm, gen, order) == GetFeaturesFrom(an, cm, sum_cm, gen, order, 1)

NoList(k) == [has_neighborlist |-> FALSE, neighborlist |-> [i \in 1..k |-> {}]]

\* The structures of the model: any small structure without a stored list, the
\* reference cluster, and small structures carrying any stored list (their
\* geometry is not read then: carbon atoms, all at 0).
GraphStructures ==
    /\ \/ /\ atoms \in Structures \cup {ReferenceCluster}
          /\ info = NoList(Len(atoms))
       \/ /\ atoms \in {as \in Structures :
                          \A i \in 1..Len(as) : as[i].x = 0 /\ as[i].number = 6}
          /\ info \in [has_neighborlist : {TRUE},
                       neighborlist : [1..Len(atoms) -> SUBSET (1..Len(atoms))]]
    /\ gpc = "base_f"
    /\ cm_store = <<>>
    /\ gen_cm = <<>>
    /\ fp = <<>>

ConnectionMatrix ==
    /\ gpc = "base_f"
    /\ UNCHANGED <<pipe_vars, predict_vars>>
    /\ cm_store' = ConnectionMatrixOf(atoms, info, Dx)
    /\ gpc' = "generalized_matrix"
    /\ UNCHANGED <<atoms, info, gen_cm, fp>>

GeneralizedCoordination ==
    /\ gpc = "generalized_matrix"
    /\ UNCHANGED <<pipe_vars, predict_vars>>
    /\ gen_cm' = GeneralizedMatrix(cm_store)
    /\ gpc' = "get_features"
    /\ UNCHANGED <<atoms, info, cm_store, fp>>

\* base_f with property None: fp += get_features(an, cm_store, sum_cm, gen_cm)
GetFeatures ==
    /\ gpc = "get_features"
    /\ UNCHANGED <<pipe_vars, predict_vars>>
    /\ \E order \in TypeOrders(AtomicNumbers(atoms)) :
          fp' = GetFeaturesOf(AtomicNumbers(atoms), cm_store, RowSums(cm_store), gen_cm, order)
    /\ gpc' = "done"
    /\ UNCHANGED <<atoms, info, cm_store, gen_cm>>

GraphNext ==
    \/ ConnectionMatrix
    \/ GeneralizedCoordination
    \/ GetFeatures

\* ---- make_prediction and hyp_opt ----
\* the values a hyperparameter takes in the model
HypValues == {1, 2}

\* a Python float, a Python list and a numpy array of floats
Float(x) == [kind |-> "float", v |-> <<x>>]

List(q) == [kind |-> "list", v |-> q]

NdArray(q) == [kind |-> "ndarray", v |-> q]

NoValue == [kind |-> "None", v |-> <<>>]

NoPredictor == [kwidth |-> NoValue, regularization |-> NoValue]

NoReturn == [kind |-> "None", items |-> <<>>]

\* __init__: width is a float or a list with one entry per feature,
\* regularization a float.
Builders(m) ==
    [width : {Float(x) : x \in HypValues} \cup {List(q) : q \in [1..m -> HypValues]},
     regularization : {Float(x) : x \in HypValues}]

\* the keywords of the call self.hyp_opt(...) made by make_prediction
HypOptKeywords == {"features", "train_target", "width", "reg"}

\* def hyp_opt(self, features, train_target): no defaults, no **kwargs
HypOptParameters == {"features", "train_target"}

\* Python binds a call by keywords when every keyword names a parameter and
\* every parameter without a default is given; otherwise it raises TypeError.
BindsKeywords(keywords, parameters) == keywords = parameters

\* hyp_opt: sigma = np.ones(m) * self.width; theta = np.append(sigma, reg)
Theta(m, w, r) == (IF w.kind = "float" THEN [i \in 1..m |-> w.v[1]] ELSE w.v) \o r.v

\* minimize(negative_logp, theta, ...)['x']: some point of the shape of theta
Minimize(theta) == [1..Len(theta) -> HypValues]

\* return popt[:-1], popt[-1:]
HypOptReturn(popt) ==
    <<NdArray(SubSeq(popt, 1, Len(popt) - 1)), NdArray(SubSeq(popt, Len(popt), Len(popt)))>>

\* a call of make_prediction or of hyp_opt on a fresh builder, with a train
\* matrix of m features
PredictInit ==
    /\ pcall \in [method : {"make_prediction", "hyp_opt"}, opt_h : BOOLEAN, m : 1..MaxD]
    /\ pcall.method = "hyp_opt" => ~pcall.opt_h
    /\ builder \in Builders(pcall.m)
    /\ ppc = pcall.method
    /\ width = builder.width
    /\ regularization = builder.regularization
    /\ predict = NoPredictor
    /\ presult = NoReturn
    /\ perr = "none"

\* make_prediction, `if opt_h:`: the call of hyp_opt and the assignment of
\* what it returns to self.width and self.regularization.
MakePrediction ==
    /\ ppc = "make_prediction"
    /\ UNCHANGED <<pipe_vars, graph_vars>>
    /\ IF pcall.opt_h
       THEN IF BindsKeywords(HypOptKeywords, HypOptParameters)
            THEN \E popt \in Minimize(Theta(pcall.m, width, regularization)) :
                    /\ width' = HypOptReturn(popt)[1]
                    /\ regularization' = HypOptReturn(popt)[2]
                    /\ ppc' = "predict"
                    /\ perr' = perr
            ELSE /\ ppc' = "aborted"
                 /\ perr' = "TypeError:hyp_opt"
                 /\ UNCHANGED <<width, regularization>>
       ELSE /\ ppc' = "predict"
            /\ UNCHANGED <<width, regularization, perr>>
    /\ UNCHANGED <<builder, pcall, predict, presult>>

\* make_prediction: FitnessPrediction(kwidth=self.width,
\* regularization=self.regularization) and get_predictions.
GetPredictions ==
    /\ ppc = "predict"
    /\ UNCHANGED <<pipe_vars, graph_vars>>
    /\ predict' = [kwidth |-> width, regularization |-> regularization]
    /\ presult' = [kind |-> "predictions", items |-> <<>>]
    /\ ppc' = "returned"
    /\ UNCHANGED <<builder, pcall, width, regularization, perr>>

\* hyp_opt called on its own with (features, train_target).
HypOpt ==
    /\ ppc = "hyp_opt"
    /\ UNCHANGED <<pipe_vars, graph_vars>>
    /\ \E popt \in Minimize(Theta(pcall.m, width, regularization)) :
          presult' = [kind |-> "tuple", items |-> HypOptReturn(popt)]
    /\ ppc' = "returned"
    /\ UNCHANGED <<builder, pcall, width, regularization, predict, perr>>

PredictNext ==
    \/ MakePrediction
    \/ GetPredictions
    \/ HypOpt

\* The variables of a make_prediction call while the pipeline or a fingerprint
\* runs: the constructor's defaults, no call.
PredictIdle ==
    /\ builder = [width |-> Float(1), regularization |-> Float(1)]
    /\ pcall = [method |-> "none", opt_h |-> FALSE, m |-> 1]
    /\ ppc = "idle"
    /\ width = builder.width
    /\ regularization = builder.regularization
    /\ predict = NoPredictor
    /\ presult = NoReturn
    /\ perr = "none"

\* The graph variables while the pipeline runs, and the pipeline variables
\* while a fingerprint is built.
GraphIdle ==
    /\ atoms = <<>>
    /\ info = NoList(0)
    /\ gpc = "idle"
    /\ cm_store = <<>>
    /\ gen_cm = <<>>
    /\ fp = <<>>

PipeIdle ==
    /\ cfg = [update_test_db |-> TRUE, screening_method |-> [value |-> "rrcs", literal |-> TRUE],
              initial_prediction |-> TRUE, expand |-> TRUE, optimize |-> TRUE, size |-> None]
    /\ call = [build |-> TRUE, has_test |-> FALSE, n |-> 1, d |-> 1]
    /\ zero_var = {}
    /\ pc = "idle"
    /\ build_no = 0
    /\ fm_train = NoMatrix
    /\ fm_test = NoMatrix
    /\ fm_names = <<>>
    /\ train_matrix = NoMatrix
    /\ test_matrix = NoMatrix
    /\ feature_names = <<>>
    /\ limit = 0
    /\ d = 0
    /\ mo = <<>>
    /\ best_size = None
    /\ best_p1 = Inf
    /\ s = 0
    /\ rmse_min = Inf
    /\ rmse_best = Inf
    /\ im = "unbound"
    /\ result = NoResult
    /\ err = "none"
    /\ trace = <<>>

Init == PipeInit /\ GraphIdle /\ PredictIdle

\* A from_atoms / from_matrix call of a ModelBuilder.
Spec == Init /\ [][Next]_vars

\* base_f on one structure.
GraphInit == GraphStructures /\ PipeIdle /\ PredictIdle

GraphSpec == GraphInit /\ [][GraphNext]_vars

\* A make_prediction or hyp_opt call on a ModelBuilder.
PredictStart == PredictInit /\ PipeIdle /\ GraphIdle

PredictSpec == PredictStart /\ [][PredictNext]_vars

\* ======================= claims =======================
\* The value reduce_matrix returns from the state it is in at its return statement.
Returning == ReducedTriple(feature_names, train_matrix, test_matrix, mo, best_size)

\* reduce_matrix is at its truncation: the fixed size is set, or the search and
\* its report are over
AtReduceReturn == pc = "truncate" \/ (pc = "size_search" /\ s > limit /\ limit >= 2)

\* C1 (as claimed): when reduce_matrix returns with a winning size, the name
\* list it returns has exactly best_size entries, as many as the returned train
\* matrix has columns.
C1_NamesTruncated ==
    (AtReduceReturn /\ best_size # None /\ best_size >= 1) =>
        /\ Len(Returning.names) = best_size
        /\ Len(Returning.names) = Len(Returning.train.cols)

\* names[k] labels the feature held in column k, for every k
Aligned(names, m) ==
    /\ Len(names) = Len(m.cols)
    /\ \A k \in 1..Len(names) : names[k] = m.cols[k]

\* C2 (as claimed): through every stage of a model-building call the name list
\* stays aligned with the columns of the train matrix, up to the triple returned.
C2_NamesAligned ==
    /\ (build_no # 0 /\ pc # "aborted") => Aligned(feature_names, train_matrix)
    /\ AtReduceReturn => Aligned(Returning.names, Returning.train)
    /\ result.kind = "triple" => Aligned(result.names, result.train)

\* C3 (as claimed): a from_matrix / from_atoms call with build enabled that
\* returns, returns the triple of the reduction, never None, whatever expand is
\* and whether or not a test matrix was supplied.
C3_ReturnsTriple ==
    (pc = "returned" /\ call.build) => result.kind = "triple"

\* C4: with optimize set, once the size search has tested a size, the size in
\* best_size is a tested size whose validation RMSE is at most the RMSE returned
\* at every tested size (rmse_min is the least of them), and best_p1 is that RMSE.
C4_SearchKeepsArgmin ==
    (build_no # 0 /\ cfg.optimize /\ pc \in {"size_search", "truncate"} /\ s > 1) =>
        /\ best_size \in 1..(s - 1)
        /\ rmse_best <= rmse_min
        /\ best_p1 = rmse_best

\* C4 witness: a search over two or more sizes has ended and a size other than
\* the first won.
C4_Witness ==
    /\ pc = "size_search"
    /\ cfg.optimize
    /\ s = limit + 1
    /\ limit >= 2
    /\ best_size = 2
    /\ rmse_best = rmse_min

InTrace(events) == \E i \in 1..Len(trace) : trace[i] \in events

ScreeningPrimitives == {"iterative_screening", "rr_screen", "sure_screen"}

\* predictor fits, ridge regression, lasso path, screening
Fitting == ScreeningPrimitives \cup {"baseline", "ridge_regression", "lasso", "fit", "pca_opt"}

\* C5 (as claimed): with optimize false and a fixed size k below the feature
\* count after cleaning, reduce_matrix returns a train matrix of exactly k
\* columns, the columns at the first k positions of the lasso ordering.
C5_FixedSizeColumns ==
    (AtReduceReturn /\ ~cfg.optimize /\ cfg.size # None) =>
        /\ cfg.size <= Len(mo)
        /\ Len(Returning.train.cols) = cfg.size
        /\ Range(Returning.train.cols) = {train_matrix.cols[mo[i]] : i \in 1..cfg.size}

\* C6: a call ended by the size assertion has invoked no predictor fit, ridge
\* regression, lasso path or screening; and build_model never goes past the
\* assertion with a configured size that the feature count after cleaning does
\* not exceed.
C6_SizeAbortBeforeFitting ==
    /\ err = "AssertionError:size" => ~InTrace(Fitting)
    /\ (cfg.size # None /\ pc \in {"baseline", "reduce_matrix"}) =>
           Len(train_matrix.cols) > cfg.size
    /\ (cfg.size # None /\ pc \in {"screening", "ridge_regression", "lasso_opt",
                                   "size_search", "truncate"}) =>
           d > cfg.size

\* C6 witness: a call cleaned and standardized its matrix and was ended by the
\* size assertion, the feature count being equal to the configured size.
C6_Witness ==
    /\ pc = "aborted"
    /\ err = "AssertionError:size"
    /\ Len(train_matrix.cols) = cfg.size
    /\ train_matrix.clean
    /\ train_matrix.std

\* the events after the last "standardize": those of the current build_model call
RECURSIVE SinceStandardize(_)
SinceStandardize(q) ==
    IF q = <<>> \/ q[Len(q)] = "standardize" THEN <<>>
    ELSE Append(SinceStandardize(SubSeq(q, 1, Len(q) - 1)), q[Len(q)])

IsScreeningPrimitive(e) == e \in ScreeningPrimitives

\* C7 (as claimed): once the screening decision of reduce_matrix is behind,
\* no screening primitive ran when d <= n, and exactly one ran when d > n: the
\* iterative one when d > 2n, else the single-pass one named by the
\* configured method.
C7_ScreeningChoice ==
    (build_no # 0 /\ (pc = "ridge_regression" \/ err = "UnboundLocalError:screen")) =>
        LET ran == SelectSeq(SinceStandardize(trace), IsScreeningPrimitive)
        IN IF d > 2 * call.n THEN ran = <<"iterative_screening">>
           ELSE IF d > call.n
           THEN IF cfg.screening_method.value = "rrcs" THEN ran = <<"rr_screen">>
                ELSE ran = <<"sure_screen">>
           ELSE ran = <<>>

Symmetric(cm) == \A i, j \in 1..Len(cm) : cm[i][j] = cm[j][i]

ZeroDiagonal(cm) == \A i \in 1..Len(cm) : cm[i][i] = 0

\* the list connection_matrix reads: every pair listed both ways, no atom in its own list
WellFormedList(nl) ==
    /\ \A i, j \in DOMAIN nl : (j \in nl[i]) <=> (i \in nl[j])
    /\ \A i \in DOMAIN nl : i \notin nl[i]

\* C8 (as claimed): every matrix connection_matrix has produced is symmetric
\* with a zero diagonal, for every structure, whether its neighbor list was
\* computed from the geometry or taken from the attached metadata.
C8_Original ==
    gpc \in {"generalized_matrix", "get_features"} =>
        Symmetric(cm_store) /\ ZeroDiagonal(cm_store)

\* C8 (amended): a matrix connection_matrix computed from the geometry is
\* symmetric with a zero diagonal; a matrix built from an attached neighbor list
\* has a 1 at (i, j) exactly where j is in the list of i, and so is symmetric
\* with a zero diagonal exactly when the attached list lists every pair both
\* ways and no atom in its own list.
C8_ConnectionMatrix ==
    gpc \in {"generalized_matrix", "get_features"} =>
        /\ ~info.has_neighborlist => Symmetric(cm_store) /\ ZeroDiagonal(cm_store)
        /\ info.has_neighborlist =>
              /\ \A i, j \in 1..Len(atoms) :
                     (cm_store[i][j] = 1) <=> (j \in info.neighborlist[i])
              /\ (Symmetric(cm_store) /\ ZeroDiagonal(cm_store))
                     <=> WellFormedList(info.neighborlist)

\* C8 witness: a matrix computed from the geometry of a structure of two atom
\* types that has a bond.
C8_Witness ==
    /\ gpc = "generalized_matrix"
    /\ ~info.has_neighborlist
    /\ \E i, j \in 1..Len(atoms) :
          /\ atoms[i].number # atoms[j].number
          /\ cm_store[i][j] = 1

\* every atom of the connectivity matrix has coordination 12
AllCoordinationTwelve(cm) == \A i \in 1..Len(cm) : SumSeq(cm[i]) = ReferenceCoordination

\* C9 (as claimed): the generalized coordination values are non-negative, and
\* for a cluster in which every atom has coordination 12 every value is 1.0
\* (gen_cm holds the numerators of the values, in twelfths).
C9_Original ==
    gpc = "get_features" =>
        /\ \A i \in 1..Len(gen_cm) : gen_cm[i] >= 0
        /\ AllCoordinationTwelve(cm_store) =>
              \A i \in 1..Len(gen_cm) : gen_cm[i] = ReferenceCoordination

\* C9 (amended): the generalized coordination values are non-negative, and
\* for a cluster in which every atom has coordination 12 every value is 12.0
\* (144 twelfths).
C9_GeneralizedCoordination ==
    gpc = "get_features" =>
        /\ \A i \in 1..Len(gen_cm) : gen_cm[i] >= 0
        /\ AllCoordinationTwelve(cm_store) =>
              \A i \in 1..Len(gen_cm) :
                  gen_cm[i] = ReferenceCoordination * ReferenceCoordination

\* C9 witness: the values of the reference cluster have been computed.
C9_Witness ==
    /\ gpc = "get_features"
    /\ atoms = ReferenceCluster
    /\ AllCoordinationTwelve(cm_store)
    /\ Len(gen_cm) = Len(atoms)

\* the stage events of a from_matrix call
Stages == {"ingest", "db_store", "clean", "standardize", "baseline", "expand", "reduce_matrix"}

IsStage(e) == e \in Stages

IsPrefix(p, q) == Len(p) <= Len(q) /\ SubSeq(q, 1, Len(p)) = p

\* C10 (as claimed): Reduce is never run before Expand when expansion is
\* enabled, and Expand is only ever applied to a matrix that has been cleaned
\* and standardized.
C10_Original ==
    /\ cfg.expand =>
          \A j \in 1..Len(trace) :
              trace[j] = "reduce_matrix" => \E i \in 1..j : trace[i] = "expand"
    /\ InTrace({"expand"}) => fm_train.clean /\ fm_train.std

\* the stages of one build_model call
BuildStages ==
    <<"clean", "standardize">>
        \o (IF cfg.initial_prediction THEN <<"baseline">> ELSE <<>>)
        \o <<"reduce_matrix">>

Persist == IF cfg.update_test_db /\ call.has_test THEN <<"db_store">> ELSE <<>>

\* the stages of a from_matrix call that runs to its end
StageOrder ==
    <<"ingest">> \o Persist
        \o (IF call.build THEN BuildStages ELSE <<>>)
        \o (IF cfg.expand
            THEN <<"expand">> \o Persist
                     \o (IF call.build /\ call.has_test THEN BuildStages ELSE <<>>)
            ELSE <<>>)

\* C10 (amended): within a from_matrix call the stages run in the order Ingest,
\* Persist, then with build Clean, Standardize, Baseline, Reduce on the matrix
\* as ingested, then with expand Expand, Persist, and with build and test data
\* Clean, Standardize, Baseline, Reduce again on the expanded matrix; a call
\* that returns has run all of them.  Expand is applied to the matrix as
\* ingested, neither cleaned nor standardized, and every Baseline and Reduce
\* works on a cleaned and standardized matrix.
C10_StageOrder ==
    /\ LET run == SelectSeq(trace, IsStage)
       IN IF pc = "returned" THEN run = StageOrder ELSE IsPrefix(run, StageOrder)
    /\ InTrace({"expand"}) => ~fm_train.clean /\ ~fm_train.std
    /\ pc \in {"baseline", "reduce_matrix", "screening", "ridge_regression", "lasso_opt",
               "size_search", "truncate"} =>
           train_matrix.clean /\ train_matrix.std

\* C10 witness: a call with every optional stage enabled has returned the
\* triple of its second build_model call.
C10_Witness ==
    /\ pc = "returned"
    /\ result.kind = "triple"
    /\ cfg.initial_prediction
    /\ cfg.update_test_db
    /\ Len(SelectSeq(trace, IsStage)) = 12

\* the sum, over the atoms j connected to i, of the row sum of j
NeighborDegreeSum(cm, i) ==
    SumSeq([j \in 1..Len(cm) |-> IF cm[i][j] # 0 THEN SumSeq(cm[j]) ELSE 0])

\* C11 (as claimed): for every atom i, generalized_matrix returns the sum of
\* the connectivity degrees of the atoms connected to i, divided by 12
\* (gen_cm holds the numerator of the value, in twelfths).
C11_GeneralizedFormula ==
    gpc = "get_features" =>
        \A i \in 1..Len(gen_cm) : gen_cm[i] = NeighborDegreeSum(cm_store, i)

\* the scalars of one kind in the feature vector
FeaturesOfKind(kd) == {fp[k] : k \in {i \in 1..Len(fp) : fp[i].kind = kd}}

\* the sum of the connectivity entries C[i][j] over the pairs with atom i of a
\* type in rows and atom j of a type in columns
BondCount(an, cm, rows, columns) ==
    SumSeq([i \in 1..Len(an) |->
               SumSeq([j \in 1..Len(an) |->
                          IF an[i] \in rows /\ an[j] \in columns THEN cm[i][j] ELSE 0])])

\* C12 (as claimed): for every atom type e of the structure the level-two
\* scalar of get_features is the sum of the connectivity entries C[i][j] over
\* the pairs where atom i and atom j are both of type e.
C12_HomoatomicCount ==
    gpc = "done" =>
        \A f \in FeaturesOfKind("homoatomic") :
            SumSeq(f.terms) = BondCount(AtomicNumbers(atoms), cm_store, {f.e}, {f.e})

\* the positions of the heteroatomic scalars in the feature vector
HeteroPositions == {k \in 1..Len(fp) : fp[k].kind = "heteroatomic"}

C15_LimitWithinFeatures ==
    /\ err # "AssertionError:limit"
    /\ (call.build /\ pc = "reduce_matrix") => limit <= Len(train_matrix.cols)

\* C16 (as claimed): for every configuration, when reduce_matrix is given a
\* train matrix with at least one feature column, the train matrix it returns
\* has at least one feature column.
C16_KeepsAFeature ==
    (AtReduceReturn /\ d >= 1) => Len(Returning.train.cols) >= 1

\* C14 (as claimed): make_prediction with opt_h true runs the tuner, which
\* returns a bandwidth vector with one entry per feature and a single noise
\* value; the stored width and regularization are replaced by them before the
\* predictor is constructed, and the predictor is built from the stored
\* values.  With opt_h false the stored width and regularization stay as
\* the constructor set them.
C14_TunerUpdatesStored ==
    pcall.method = "make_prediction" =>
        /\ pcall.opt_h =>
              /\ perr = "none"
              /\ ppc \in {"predict", "returned"} =>
                    /\ width.kind = "ndarray"
                    /\ Len(width.v) = pcall.m
                    /\ Len(regularization.v) = 1
        /\ ~pcall.opt_h =>
              /\ width = builder.width
              /\ regularization = builder.regularization
        /\ ppc = "returned" =>
              predict = [kwidth |-> width, regularization |-> regularization]

=============================================================================
